---- MODULE Spec2Model ----
(***************************************************************************)
(* Redux-Toolkit-POC: the todos and user slices, the selectors, the RTK    *)
(* Query api slice and App, as state machines over the Redux store.        *)
(*                                                                         *)
(*   SpecTodos  todoSlice.js: reducers and the fetchTodos thunk lifecycle  *)
(*   SpecSel    selectors.js: selectFilteredPosts over bounded inputs      *)
(*   SpecApi    apiSlice.js : cache entries, tags, mutations, retry        *)
(*   SpecPage   selectors.js: selectPaginatedPosts over bounded inputs     *)
(*   SpecMemo   selectors.js: createSelector caches and references         *)
(*   SpecKeys   apiSlice.js : cache key and request of getPosts, getTodos  *)
(*   SpecUser   userSlice   : reducers and the user thunks                 *)
(*   SpecStore  store.js    : dispatch through errorMiddleware             *)
(*   SpecComments apiSlice.js: getComments and createComment tags          *)
(*   SpecApp    App.jsx     : handlers, notifications, auto-dismiss        *)
(*   SpecAppLive            : SpecApp with time passing and timeouts firing*)
(***************************************************************************)
EXTENDS Integers, Sequences, FiniteSets, TLC

VARIABLES
    todos,        \* state.todos : [list, status, error]
    thunks,       \* fetchTodos requests dispatched and not yet settled
    nextRequest,  \* number of fetchTodos requests dispatched so far
    settled,      \* history: fetchTodos requests whose result was reduced
    now,          \* Date.now()
    posts,        \* state.posts : [posts, filters]
    filteredView, \* what the last read of selectFilteredPosts returned
    queries,      \* state.api.queries : cache key -> entry
    provided,     \* state.api.provided : cache key -> tags of the entry
    subscriptions,\* state.api.subscriptions : cache key -> subscribed readers
    inflight,     \* query and mutation thunks whose baseQueryWithRetry runs
    lastDone,     \* history: the thunk that settled last, with its baseQuery results
    nextExec,     \* per cache key, and for the mutations: thunks started so far
    issued,       \* number of mutations and refetches asked for by components
    staleAfterCreate, \* history: cache key -> payloads cached when a createPost succeeded
    pageInput,    \* the inputs of selectPaginatedPosts: [filtered, pagination]
    pagedView,    \* what the last read of selectPaginatedPosts returned
    ui,           \* state.ui : [notifications]
    refs,         \* the array each input selector returns, by address
    memo,         \* the cache of each module-level createSelector
    runs,         \* per derived view: runs of its result function so far
    lastRead,     \* history: per derived view, what its last read returned
    requests,     \* the two query hook calls compared: [endpoint, arg] each
    resolved,     \* per call, once initiated: its cache key and its request
    user,         \* state.user
    userThunks,   \* loginUser, logoutUser and fetchUserProfile thunks in flight
    nextThunk,    \* number of user thunks dispatched so far
    lastSettled,  \* history: the user thunk that settled last and its outcome
    loginRole,    \* history: role of the mock user the last fulfilled login was for
    lastDispatch, \* history: the action dispatched last and how the chain handled it
    comments,     \* the getComments cache entries of apiSlice, by postId
    commentMutations, \* createComment mutations in flight: postIds
    createdComments,  \* number of createComment mutations started
    lastInvalidated,  \* history: the last fulfilled createComment and what it invalidated
    timers,       \* App: the timeouts the auto-dismiss effect has set and that have not fired
    succeeded,    \* history: the thunk types of which a dispatch has been fulfilled
    overflowed    \* history: a call of useNotifications.removeNotification has ended in a RangeError

todoVars == <<todos, thunks, nextRequest, settled, now>>
selVars  == <<posts, filteredView>>
apiVars  == <<queries, provided, subscriptions, inflight, lastDone, nextExec, issued, staleAfterCreate>>
pageVars == <<pageInput, pagedView>>
\* the variables of the derivations that are studied on their own
memoVars == <<ui, refs, memo, runs, lastRead>>
keyVars  == <<requests, resolved>>
userVars == <<user, userThunks, nextThunk, lastSettled, loginRole>>
\* the variables of the user slice, the store and the App handlers
storeVars == <<lastDispatch>>
commentVars == <<comments, commentMutations, createdComments, lastInvalidated>>
appVars == <<timers, succeeded, overflowed>>
laterVars == <<userVars, storeVars, commentVars, appVars>>
derivedVars == <<pageVars, memoVars, keyVars, laterVars>>
\* what an action of the user slice leaves alone
nonUserVars == <<todoVars, selVars, apiVars, pageVars, memoVars, keyVars, storeVars, commentVars,
                 appVars>>

\* ------------------------------------------------------------------------
\* Bounds
\* ------------------------------------------------------------------------
MaxFetches == 3      \* fetchTodos dispatches in one behaviour
MaxTodos   == 2      \* length of state.todos.list that addTodo may reach
MaxNow     == 11     \* last clock value
MaxPosts   == 3      \* length of state.posts.posts
MaxIssued  == 1      \* mutations and refetches components ask for
MaxItems   == 25     \* length of the filtered sequence handed to selectPaginatedPosts
MaxPage    == 4      \* pagination.currentPage ranges over -MaxPage..MaxPage
MaxPerPage == 10     \* pagination.itemsPerPage ranges over 1..MaxPerPage
MaxNotifications == 1 \* length of state.ui.notifications
MaxElapses == 2      \* times the clock is moved on between reads
ElapseStep == 3000   \* milliseconds the clock is moved on by
MaxRuns    == 2      \* runs of one view's result function
MaxUserThunks == 3   \* loginUser, logoutUser and fetchUserProfile dispatches
MaxAttempts == 2     \* state.user.loginAttempts that rejected logins may reach
MaxCommentPosts == 3    \* posts whose comments are queried
CommentsPerPost == 2    \* comments the server holds for each post
MaxCreatedComments == 2 \* createComment mutations

NULL == "null"

\* ------------------------------------------------------------------------
\* todoSlice.js
\* ------------------------------------------------------------------------
FirstNow == 10       \* the clock starts above every server todo id

Titles == {"buy milk"}

\* what GET /todos?_limit=5 may answer with (res.json())
ServerTodoLists ==
    { <<>>,
      << [id |-> 1, title |-> "delectus", completed |-> FALSE, userId |-> 1],
         [id |-> 2, title |-> "quis ut", completed |-> TRUE, userId |-> 1] >> }

\* error.message values the catch block of fetchTodos can see; "" is a
\* falsy message
FetchErrorMessages == {"Network response was not ok", "Failed to fetch", ""}

todoInitialState == [list |-> <<>>, status |-> "idle", error |-> NULL]

\* index of the first element with the given id, 0 when there is none
FindIndexById(list, id) ==
    IF \E i \in 1..Len(list) : list[i].id = id
    THEN CHOOSE i \in 1..Len(list) :
            /\ list[i].id = id
            /\ \A j \in 1..(i - 1) : list[j].id # id
    ELSE 0

addTodo(state, action, clock) ==
    LET newTodo == [id |-> clock, title |-> action.payload,
                    completed |-> FALSE, userId |-> 1]
    IN  [state EXCEPT !.list = <<newTodo>> \o state.list]

\* state.list.filter(todo => todo.id !== action.payload)
deleteTodo(state, action) ==
    LET Keep(todo) == todo.id # action.payload
    IN  [state EXCEPT !.list = SelectSeq(state.list, Keep)]

toggleTodo(state, action) ==
    LET i == FindIndexById(state.list, action.payload)
    IN  IF i # 0
        THEN [state EXCEPT !.list[i].completed = ~state.list[i].completed]
        ELSE state

clearError(state) == [state EXCEPT !.error = NULL]

fetchTodosPending(state) ==
    [state EXCEPT !.status = "loading", !.error = NULL]

fetchTodosFulfilled(state, action) ==
    [state EXCEPT !.status = "succeeded", !.list = action.payload]

\* action.payload || 'Failed to fetch todos'
fetchTodosRejected(state, action) ==
    [state EXCEPT !.status = "failed",
                  !.error = IF action.payload = "" THEN "Failed to fetch todos"
                            ELSE action.payload]

\* a reducer that also takes every other rejected action for a failed fetch
\* and drops the list
todoReducerAnyRejected(state, action, clock) ==
    CASE action.type = "todos/addTodo"              -> addTodo(state, action, clock)
      [] action.type = "todos/deleteTodo"           -> deleteTodo(state, action)
      [] action.type = "todos/toggleTodo"           -> toggleTodo(state, action)
      [] action.type = "todos/clearError"           -> clearError(state)
      [] action.type = "todos/fetchTodos/pending"   -> fetchTodosPending(state)
      [] action.type = "todos/fetchTodos/fulfilled" -> fetchTodosFulfilled(state, action)
      [] action.type = "todos/fetchTodos/rejected"  -> fetchTodosRejected(state, action)
      [] action.type \in {"api/executeQuery/rejected", "api/executeMutation/rejected"} ->
            [state EXCEPT !.status = "failed", !.list = <<>>]
      [] OTHER -> state

\* the slice reducer: case reducers by action type, any other action
\* returns the state it was given
todoReducer(state, action, clock) ==
    CASE action.type = "todos/addTodo"              -> addTodo(state, action, clock)
      [] action.type = "todos/deleteTodo"           -> deleteTodo(state, action)
      [] action.type = "todos/toggleTodo"           -> toggleTodo(state, action)
      [] action.type = "todos/clearError"           -> clearError(state)
      [] action.type = "todos/fetchTodos/pending"   -> fetchTodosPending(state)
      [] action.type = "todos/fetchTodos/fulfilled" -> fetchTodosFulfilled(state, action)
      [] action.type = "todos/fetchTodos/rejected"  -> fetchTodosRejected(state, action)
      [] OTHER -> state

Action(type, payload) == [type |-> type, payload |-> payload]

\* ---- operations of the todos slice as seen through useTodos ------------

\* useTodos.addTodo(title)
AddTodo ==
    /\ Len(todos.list) < MaxTodos
    /\ \E title \in Titles :
          todos' = todoReducer(todos, Action("todos/addTodo", title), now)
    /\ UNCHANGED <<thunks, nextRequest, settled, now, selVars, apiVars, derivedVars>>

\* useTodos.deleteTodo(id)
DeleteTodo ==
    /\ \E i \in 1..Len(todos.list) :
          todos' = todoReducer(todos, Action("todos/deleteTodo", todos.list[i].id), now)
    /\ UNCHANGED <<thunks, nextRequest, settled, now, selVars, apiVars, derivedVars>>

\* useTodos.toggleTodo(id)
ToggleTodo ==
    /\ \E i \in 1..Len(todos.list) :
          todos' = todoReducer(todos, Action("todos/toggleTodo", todos.list[i].id), now)
    /\ UNCHANGED <<thunks, nextRequest, settled, now, selVars, apiVars, derivedVars>>

\* useTodos.clearError()
ClearError ==
    /\ todos' = todoReducer(todos, Action("todos/clearError", NULL), now)
    /\ UNCHANGED <<thunks, nextRequest, settled, now, selVars, apiVars, derivedVars>>

\* dispatch(fetchTodos()): the pending action is reduced at once, the
\* request is then in flight
FetchTodos ==
    /\ nextRequest < MaxFetches
    /\ nextRequest' = nextRequest + 1
    /\ thunks' = thunks \cup {nextRequest + 1}
    /\ todos' = todoReducer(todos, Action("todos/fetchTodos/pending", NULL), now)
    /\ UNCHANGED <<settled, now, selVars, apiVars, derivedVars>>

\* res.ok and res.json() resolved: fetchTodos.fulfilled
FetchTodosFulfilled ==
    \E r \in thunks, payload \in ServerTodoLists :
        /\ thunks' = thunks \ {r}
        /\ todos' = todoReducer(todos, Action("todos/fetchTodos/fulfilled", payload), now)
        /\ settled' = settled \cup {r}
        /\ UNCHANGED <<nextRequest, now, selVars, apiVars, derivedVars>>

\* fetch threw or !res.ok: rejectWithValue(error.message)
FetchTodosRejected ==
    \E r \in thunks, msg \in FetchErrorMessages :
        /\ thunks' = thunks \ {r}
        /\ todos' = todoReducer(todos, Action("todos/fetchTodos/rejected", msg), now)
        /\ settled' = settled \cup {r}
        /\ UNCHANGED <<nextRequest, now, selVars, apiVars, derivedVars>>

\* time passes
Tick ==
    /\ now < MaxNow
    /\ now' = now + 1
    /\ UNCHANGED <<todos, thunks, nextRequest, settled, selVars, apiVars, derivedVars>>

\* ------------------------------------------------------------------------
\* selectors.js: selectFilteredPosts
\* ------------------------------------------------------------------------
\* Strings are sequences of one-letter strings.
Undefined == <<"#undefined">>

Letters == {"a", "b", "A", "B"}

\* String.prototype.toLowerCase, letter by letter
LowerChar(c) == CASE c = "A" -> "a" [] c = "B" -> "b" [] OTHER -> c

toLowerCase(str) == [i \in 1..Len(str) |-> LowerChar(str[i])]

\* String.prototype.includes
includes(str, term) ==
    \E i \in 0..(Len(str) - Len(term)) : SubSeq(str, i + 1, i + Len(term)) = term

\* UTF-16 code unit of a letter
CharCode(c) == CASE c = "A" -> 65 [] c = "B" -> 66 [] c = "a" -> 97 [] c = "b" -> 98

RECURSIVE StrGreater(_, _)
\* the > operator on two strings: code unit by code unit, a proper prefix
\* is the smaller one
StrGreater(x, y) ==
    IF x = <<>> THEN FALSE
    ELSE IF y = <<>> THEN TRUE
    ELSE IF CharCode(Head(x)) # CharCode(Head(y))
         THEN CharCode(Head(x)) > CharCode(Head(y))
         ELSE StrGreater(Tail(x), Tail(y))

\* the truthiness test of  if (filters.search)
Truthy(str) == str # <<>> /\ str # Undefined

\* the predicate handed to filtered.filter
searchTitleOnly(post, searchLower) ==
    includes(toLowerCase(post.title), searchLower)

searchMatches(post, searchLower) ==
    \/ includes(toLowerCase(post.title), searchLower)
    \/ includes(toLowerCase(post.body), searchLower)

\* "Apply search filter"
applySearchFilter(filtered, filters) ==
    IF Truthy(filters.search)
    THEN LET searchLower == toLowerCase(filters.search)
             Keep(post) == searchMatches(post, searchLower)
         IN  SelectSeq(filtered, Keep)
    ELSE filtered

\* the filter line that is commented out in the source, were it active
categoryFilterActive(filtered, filters) ==
    IF filters.category # "all"
    THEN LET Keep(post) == post.category = filters.category
         IN  SelectSeq(filtered, Keep)
    ELSE filtered

\* "Apply category filter": the body of the if holds comments only
applyCategoryFilter(filtered, filters) == filtered

\* the comparator handed to filtered.sort: 1 or -1, never 0
\* aValue > bValue  and  aValue < bValue
Greater(a, b, sortBy) ==
    CASE sortBy = "title"  -> StrGreater(toLowerCase(a.title), toLowerCase(b.title))
      [] sortBy = "author" -> a.userId > b.userId
      [] OTHER             -> a.id > b.id

compare(a, b, filters) ==
    IF filters.sortOrder = "asc"
    THEN IF Greater(a, b, filters.sortBy) THEN 1 ELSE -1
    ELSE IF Greater(b, a, filters.sortBy) THEN 1 ELSE -1

\* the rearrangements of a sequence
Rearrangements(seq) ==
    { [i \in 1..Len(seq) |-> seq[f[i]]] :
        f \in { g \in [1..Len(seq) -> 1..Len(seq)] :
                  \A i, j \in 1..Len(seq) : i # j => g[i] # g[j] } }

\* Array.prototype.sort with this comparator: where the comparator orders a
\* pair consistently the pair comes out in that order; where it answers -1
\* both ways (equal keys) it is not a consistent comparator and the order of
\* the pair is implementation-defined
SortOutcomes(filtered, filters) ==
    { p \in Rearrangements(filtered) :
        \A i, j \in 1..Len(p) :
            i < j => ~(compare(p[i], p[j], filters) = 1 /\ compare(p[j], p[i], filters) = -1) }

\* the result function of selectFilteredPosts: every value a read may return
selectFilteredPosts(state) ==
    SortOutcomes(
        applyCategoryFilter(applySearchFilter(state.posts, state.filters), state.filters),
        state.filters)

\* ---- inputs -------------------------------------------------------------
PostPool ==
    { [id |-> 1, title |-> <<"A", "b">>, body |-> <<"b">>,      userId |-> 2, category |-> "tech"],
      [id |-> 2, title |-> <<"b">>,      body |-> <<"B", "a">>, userId |-> 1, category |-> "news"],
      [id |-> 3, title |-> <<"a", "B">>, body |-> <<>>,         userId |-> 1, category |-> "tech"],
      [id |-> 4, title |-> <<>>,         body |-> <<"b", "b">>, userId |-> 2, category |-> "news"] }

PostCollections ==
    UNION { { q \in [1..n -> PostPool] : \A i, j \in 1..n : i # j => q[i] # q[j] } :
            n \in 0..MaxPosts }

SearchTerms == { <<>>, Undefined, <<"a">>, <<"B">>, <<"a", "b">>, <<"b", "A">> }

FilterSpecs ==
    [search : SearchTerms, category : {"all", "tech"},
     sortBy : {"title", "author", "date", "other"}, sortOrder : {"asc", "desc"}]

NoView == [read |-> FALSE, value |-> <<>>]

\* a result function that sorts the array of the state: without a search
\* term no filter() has replaced the array, and sort works in place
postsAfterSortInPlace(state, sorted) ==
    IF Truthy(state.filters.search) THEN state ELSE [state EXCEPT !.posts = sorted]

\* state.posts after the result function ran: let filtered = [...posts]
\* copies the array, filter() and the in-place sort work on the copy
postsAfterSort(state, sorted) == state

\* a component reads useSelector(selectFilteredPosts)
ReadFilteredPosts ==
    /\ \E result \in selectFilteredPosts(posts) :
          /\ filteredView' = [read |-> TRUE, value |-> result]
          /\ posts' = postsAfterSort(posts, result)
    /\ UNCHANGED <<todoVars, apiVars, derivedVars>>

\* ------------------------------------------------------------------------
\* selectors.js: selectPaginatedPosts
\* ------------------------------------------------------------------------
Min(x, y) == IF x < y THEN x ELSE y
Max(x, y) == IF x > y THEN x ELSE y

\* a relative index of Array.prototype.slice: negative counts from the end
RelativeIndex(len, index) ==
    IF index < 0 THEN Max(len + index, 0) ELSE Min(index, len)

\* Array.prototype.slice(start, end)
slice(arr, start, end) ==
    LET k     == RelativeIndex(Len(arr), start)
        final == RelativeIndex(Len(arr), end)
    IN  [i \in 1..Max(final - k, 0) |-> arr[k + i]]

\* the same selector with startIndex = currentPage * itemsPerPage
selectPaginatedPostsFromZero(filtered, pagination) ==
    LET startIndex == pagination.currentPage * pagination.itemsPerPage
        endIndex   == startIndex + pagination.itemsPerPage
    IN  slice(filtered, startIndex, endIndex)

\* the result function of selectPaginatedPosts; filtered is what
\* selectFilteredPosts returned, pagination is state.posts.pagination
selectPaginatedPosts(filtered, pagination) ==
    LET startIndex == (pagination.currentPage - 1) * pagination.itemsPerPage
        endIndex   == startIndex + pagination.itemsPerPage
    IN  slice(filtered, startIndex, endIndex)

\* ---- inputs -------------------------------------------------------------
\* filtered sequences of every length up to MaxItems; the record at index i
\* carries id i
FilteredSequences == { [i \in 1..n |-> [id |-> i]] : n \in 0..MaxItems }

PaginationSpecs ==
    [currentPage : (0 - MaxPage)..MaxPage, itemsPerPage : 1..MaxPerPage]

\* a component reads useSelector(selectPaginatedPosts)
ReadPaginatedPosts ==
    /\ pagedView' = [read |-> TRUE,
                     value |-> selectPaginatedPosts(pageInput.filtered, pageInput.pagination)]
    /\ UNCHANGED <<pageInput, todoVars, selVars, apiVars, memoVars, keyVars, laterVars>>

\* ------------------------------------------------------------------------
\* uiSlice.js: notifications;  selectors.js: createSelector and the views
\* built with it
\* ------------------------------------------------------------------------
DefaultDuration == 5000
ShortDuration   == 3000

\* durations the notification hooks pass (showSuccess, showError)
Durations == {ShortDuration, DefaultDuration}

\* new Date().toISOString() and new Date(timestamp).getTime(): the text
\* carries the milliseconds
toISOString(ms) == <<"iso", ms>>
getTime(timestamp) == timestamp[2]

uiInitialState == [notifications |-> <<>>]

\* duration: action.payload.duration || 5000
addNotification(state, action, clock) ==
    LET notification ==
            [id |-> clock, type |-> action.payload.type, message |-> action.payload.message,
             duration |-> IF action.payload.duration # 0 THEN action.payload.duration
                          ELSE DefaultDuration,
             timestamp |-> toISOString(clock)]
    IN  [state EXCEPT !.notifications = Append(@, notification)]

\* the views read through createSelector
FixedViews   == {"selectFilteredPosts", "selectActiveNotifications"}
FactoryViews == {"selectTodosByUserId", "selectPostsByUser"}
Views        == FixedViews \cup FactoryViews

\* what the input selectors of a view return, by address
InputsOf(view) ==
    CASE view = "selectFilteredPosts"       -> <<refs.posts, refs.filters>>
      [] view = "selectPostsByUser"         -> <<refs.posts>>
      [] view = "selectTodosByUserId"       -> <<refs.todos>>
      [] view = "selectActiveNotifications" -> <<refs.notifications>>

\* the result function of selectActiveNotifications; clock is what
\* Date.now() answers when it runs. No notification carries a dismissed
\* field, so !notification.dismissed holds for each.
activeNotifications(notifications, clock) ==
    LET Keep(notification) ==
            (clock - getTime(notification.timestamp)) <
                (IF notification.duration # 0 THEN notification.duration ELSE DefaultDuration)
    IN  SelectSeq(notifications, Keep)

\* the result function of a view: every value a run at this clock may return
\* (the factories are called with userId 1)
ResultsOf(view, clock) ==
    CASE view = "selectFilteredPosts" -> selectFilteredPosts(posts)
      [] view = "selectPostsByUser" ->
            LET Keep(post) == post.userId = 1 IN {SelectSeq(posts.posts, Keep)}
      [] view = "selectTodosByUserId" ->
            LET Keep(todo) == todo.userId = 1 IN {SelectSeq(todos.list, Keep)}
      [] view = "selectActiveNotifications" ->
            {activeNotifications(ui.notifications, clock)}

EmptyCache == [valid |-> FALSE, inputs |-> <<>>, value |-> <<>>, ref |-> 0]

NeverRead == [seen |-> FALSE, inputs |-> <<>>, value |-> <<>>, ref |-> 0, at |-> 0]

\* the cache a read starts from: a module-level selector keeps its cache,
\* selectTodosByUserId(userId) and selectPostsByUser(userId) build a new
\* selector, with an empty cache, on every call
cacheOf(view) == IF view \in FixedViews THEN memo[view] ELSE EmptyCache

\* createSelector: the result function runs unless the inputs are the ones
\* of the last run, by reference; the array a run returns is a new one,
\* named by the number of the run
Read(view) ==
    LET cache == cacheOf(view)
        hit   == cache.valid /\ cache.inputs = InputsOf(view)
    IN  IF hit
        THEN /\ lastRead' = [lastRead EXCEPT ![view] =
                    [seen |-> TRUE, inputs |-> InputsOf(view), value |-> cache.value,
                     ref |-> cache.ref, at |-> now]]
             /\ UNCHANGED <<memo, runs>>
        ELSE /\ runs[view] < MaxRuns
             /\ \E value \in ResultsOf(view, now) :
                   /\ memo' = [memo EXCEPT ![view] =
                          [valid |-> TRUE, inputs |-> InputsOf(view), value |-> value,
                           ref |-> runs[view] + 1]]
                   /\ lastRead' = [lastRead EXCEPT ![view] =
                          [seen |-> TRUE, inputs |-> InputsOf(view), value |-> value,
                           ref |-> runs[view] + 1, at |-> now]]
             /\ runs' = [runs EXCEPT ![view] = @ + 1]

\* a component reads useSelector(selectFilteredPosts) or
\* useSelector(selectActiveNotifications)
ReadFixedView ==
    \E view \in FixedViews :
        /\ Read(view)
        /\ UNCHANGED <<ui, refs, todoVars, selVars, apiVars, pageVars, keyVars, laterVars>>

\* a component reads selectTodosByUserId(1)(state) or selectPostsByUser(1)(state)
ReadFactoryView ==
    \E view \in FactoryViews :
        /\ Read(view)
        /\ UNCHANGED <<ui, refs, todoVars, selVars, apiVars, pageVars, keyVars, laterVars>>

\* dispatch(addTodo(title)): unshift gives state.todos.list a new array
DispatchAddTodo ==
    \E title \in Titles :
        /\ Len(todos.list) < MaxTodos
        /\ todos' = todoReducer(todos, Action("todos/addTodo", title), now)
        /\ refs' = [refs EXCEPT !.todos = @ + 1]
        /\ UNCHANGED <<thunks, nextRequest, settled, now, ui, memo, runs, lastRead,
                       selVars, apiVars, pageVars, keyVars, laterVars>>

\* dispatch(addNotification({type, duration})): push gives
\* state.ui.notifications a new array
DispatchAddNotification ==
    \E duration \in Durations :
        /\ Len(ui.notifications) < MaxNotifications
        /\ ui' = addNotification(ui, Action("ui/addNotification",
                                             [type |-> "success", message |-> "Todo added successfully!",
                                              duration |-> duration]), now)
        /\ refs' = [refs EXCEPT !.notifications = @ + 1]
        /\ UNCHANGED <<memo, runs, lastRead, todoVars, selVars, apiVars, pageVars, keyVars, laterVars>>

\* time passes
Elapse ==
    /\ now < FirstNow + MaxElapses * ElapseStep
    /\ now' = now + ElapseStep
    /\ UNCHANGED <<todos, thunks, nextRequest, settled, selVars, apiVars, derivedVars>>

\* ------------------------------------------------------------------------
\* apiSlice.js: the request and the cache key of getPosts and getTodos
\* ------------------------------------------------------------------------
\* An argument object is the sequence of its properties in insertion order,
\* each [name, value]; a value is the text of a JavaScript literal.
ParamNames == {"page", "limit", "userId", "completed"}

\* the property names in the order Object.keys(arg).sort() gives
SortedNames == <<"completed", "limit", "page", "userId">>

Has(arg, name) == \E i \in 1..Len(arg) : arg[i].name = name

\* arg[name]; a property that is not there reads as undefined
Get(arg, name) ==
    IF Has(arg, name)
    THEN arg[CHOOSE i \in 1..Len(arg) : arg[i].name = name].value
    ELSE "undefined"

\* the truthiness test of  if (userId)
TruthyValue(value) == value \notin {"undefined", "0", "false"}

\* a destructuring default:  ({ page = 1 }) 
OrDefault(value, default) == IF value = "undefined" THEN default ELSE value

Param(name, value) == [name |-> name, value |-> value]

\* getPosts.query: params.append in the order of the source
getPostsQuery(arg) ==
    LET page   == OrDefault(Get(arg, "page"), "1")
        limit  == OrDefault(Get(arg, "limit"), "10")
        userId == Get(arg, "userId")
    IN  [method |-> "GET", path |-> "/posts",
         params |-> << Param("_page", page), Param("_limit", limit) >>
                    \o (IF TruthyValue(userId) THEN << Param("userId", userId) >> ELSE <<>>)]

\* getTodos.query
getTodosQuery(arg) ==
    LET userId    == Get(arg, "userId")
        completed == Get(arg, "completed")
    IN  [method |-> "GET", path |-> "/todos",
         params |-> (IF TruthyValue(userId) THEN << Param("userId", userId) >> ELSE <<>>)
                    \o (IF completed # "undefined" THEN << Param("completed", completed) >>
                        ELSE <<>>)]

query(endpoint, arg) ==
    IF endpoint = "getPosts" THEN getPostsQuery(arg) ELSE getTodosQuery(arg)

\* a serialization that keeps the properties in insertion order
serializeQueryArgsUnsorted(endpoint, arg) ==
    LET Keep(property) == property.value # "undefined"
    IN  [endpoint |-> endpoint, args |-> SelectSeq(arg, Keep)]

\* the cache key createApi gives a query (no serializeQueryArgs is
\* configured): the endpoint name and JSON.stringify of the argument with
\* its keys sorted; JSON.stringify leaves out a property whose value is
\* undefined
serializeQueryArgs(endpoint, arg) ==
    LET Keep(name) == Get(arg, name) # "undefined"
        names == SelectSeq(SortedNames, Keep)
    IN  [endpoint |-> endpoint,
         args |-> [i \in 1..Len(names) |-> Param(names[i], Get(arg, names[i]))]]

\* ---- inputs -------------------------------------------------------------
ParamValues ==
    [name \in ParamNames |->
        CASE name = "page"      -> {"1", "2"}
          [] name = "limit"     -> {"10", "5"}
          [] name = "userId"    -> {"1", "undefined"}
          [] name = "completed" -> {"true", "false"}]

EndpointParams(endpoint) ==
    IF endpoint = "getPosts" THEN {"page", "limit", "userId"} ELSE {"userId", "completed"}

\* every argument object over the endpoint's parameters, in every order
ArgObjects(endpoint) ==
    UNION { { arg \in [1..n -> [name : EndpointParams(endpoint),
                                 value : UNION { ParamValues[x] : x \in ParamNames }]] :
                /\ \A i, j \in 1..n : i # j => arg[i].name # arg[j].name
                /\ \A i \in 1..n : arg[i].value \in ParamValues[arg[i].name] } :
            n \in 0..Cardinality(EndpointParams(endpoint)) }

Unresolved == [done |-> FALSE, cacheKey |-> [endpoint |-> "", args |-> <<>>],
               request |-> [method |-> "", path |-> "", params |-> <<>>]]

\* a component calls useGetPostsQuery(arg) or useGetTodosQuery(arg): the api
\* computes the cache key of the call and, to load it, the request
InitiateQuery ==
    \E i \in DOMAIN requests :
        /\ ~resolved[i].done
        /\ resolved' = [resolved EXCEPT ![i] =
              [done |-> TRUE,
               cacheKey |-> serializeQueryArgs(requests[i].endpoint, requests[i].arg),
               request |-> query(requests[i].endpoint, requests[i].arg)]]
        /\ UNCHANGED <<requests, todoVars, selVars, apiVars, pageVars, memoVars, laterVars>>

\* ------------------------------------------------------------------------
\* userSlice.js
\* ------------------------------------------------------------------------
\* Texts are sequences of characters. A field that holds an object or null
\* is the empty sequence for null and a one-element sequence otherwise.
NullText == <<"#null">>

InvalidCredentials == <<"I", "n", "v", "a", "l", "i", "d", " ", "c", "r", "e", "d", "e", "n", "t", "i", "a", "l", "s">>

NoAuthenticationToken ==
    <<"N", "o", " ", "a", "u", "t", "h", "e", "n", "t", "i", "c", "a", "t", "i", "o", "n", " ", "t", "o", "k", "e", "n">>

mockUsers ==
    << [id |-> 1, username |-> "john_doe",   name |-> "John Doe",   role |-> "admin"],
       [id |-> 2, username |-> "jane_smith", name |-> "Jane Smith", role |-> "user"],
       [id |-> 3, username |-> "bob_wilson", name |-> "Bob Wilson", role |-> "user"] >>

\* mockUsers.find(u => u.username === username): the first match, none: <<>>
FindUser(username) ==
    LET Is(u) == u.username = username
        found == SelectSeq(mockUsers, Is)
    IN  IF found = <<>> THEN <<>> ELSE <<Head(found)>>

\* the payload creator of loginUser with the password never compared
loginUserAnyPassword(credentials, clock) ==
    LET found == FindUser(credentials.username)
    IN  IF found = <<>>
        THEN [outcome |-> "rejected", payload |-> InvalidCredentials,
              user |-> <<>>, token |-> <<>>]
        ELSE [outcome |-> "fulfilled", payload |-> NullText, user |-> found,
              token |-> << [userId |-> found[1].id, at |-> clock] >>]

\* the payload creator of loginUser: what the thunk settles with; clock is
\* the Date.now() of the token
loginUser(credentials, clock) ==
    LET found == FindUser(credentials.username)
    IN  IF found = <<>> \/ credentials.password # "password"
        THEN [outcome |-> "rejected", payload |-> InvalidCredentials,
              user |-> <<>>, token |-> <<>>]
        ELSE [outcome |-> "fulfilled", payload |-> NullText, user |-> found,
              token |-> << [userId |-> found[1].id, at |-> clock] >>]

\* the payload creator of fetchUserProfile on the state getState() returned
\* when the thunk started
fetchUserProfile(seen) ==
    IF seen.token = <<>>
    THEN [outcome |-> "rejected", payload |-> NoAuthenticationToken, user |-> <<>>]
    ELSE [outcome |-> "fulfilled", payload |-> NullText, user |-> seen.userData]

userInitialState ==
    [userData |-> <<>>, token |-> <<>>, isAuthenticated |-> FALSE, isLoading |-> FALSE,
     error |-> NullText, loginAttempts |-> 0, lastLoginTime |-> <<>>]

\* { ...state.userData, ...action.payload }
Spread(object, updates) ==
    [k \in DOMAIN object \cup DOMAIN updates |->
        IF k \in DOMAIN updates THEN updates[k] ELSE object[k]]

updateProfile(state, action) ==
    IF state.userData # <<>>
    THEN [state EXCEPT !.userData = << Spread(state.userData[1], action.payload) >>]
    ELSE state

expireToken(state) ==
    [state EXCEPT !.token = <<>>, !.isAuthenticated = FALSE, !.userData = <<>>]

loginUserFulfilled(state, action, clock) ==
    [state EXCEPT !.isLoading = FALSE, !.isAuthenticated = TRUE,
                  !.userData = action.payload.user, !.token = action.payload.token,
                  !.error = NullText, !.loginAttempts = 0,
                  !.lastLoginTime = <<toISOString(clock)>>]

loginUserRejected(state, action) ==
    [state EXCEPT !.isLoading = FALSE, !.isAuthenticated = FALSE, !.userData = <<>>,
                  !.token = <<>>, !.error = action.payload, !.loginAttempts = @ + 1]

logoutUserFulfilled(state) ==
    [state EXCEPT !.isLoading = FALSE, !.isAuthenticated = FALSE, !.userData = <<>>,
                  !.token = <<>>, !.error = NullText, !.loginAttempts = 0,
                  !.lastLoginTime = <<>>]

\* action.payload.includes('token') on a payload that is undefined raises a
\* TypeError
fetchUserProfileRejectedThrows(action) == action.payload = Undefined

fetchUserProfileRejected(state, action) ==
    LET failed == [state EXCEPT !.isLoading = FALSE, !.error = action.payload]
    IN  IF includes(action.payload, <<"t", "o", "k", "e", "n">>)
        THEN [failed EXCEPT !.isAuthenticated = FALSE, !.userData = <<>>, !.token = <<>>]
        ELSE failed

\* userSlice.reducer on an action it handles without raising
userReducer(state, action, clock) ==
    CASE action.type = "user/clearError" -> [state EXCEPT !.error = NullText]
      [] action.type = "user/updateProfile" -> updateProfile(state, action)
      [] action.type = "user/resetLoginAttempts" -> [state EXCEPT !.loginAttempts = 0]
      [] action.type = "user/expireToken" -> expireToken(state)
      [] action.type = "user/loginUser/pending" ->
            [state EXCEPT !.isLoading = TRUE, !.error = NullText]
      [] action.type = "user/loginUser/fulfilled" -> loginUserFulfilled(state, action, clock)
      [] action.type = "user/loginUser/rejected" -> loginUserRejected(state, action)
      [] action.type = "user/logoutUser/pending" -> [state EXCEPT !.isLoading = TRUE]
      [] action.type = "user/logoutUser/fulfilled" -> logoutUserFulfilled(state)
      [] action.type = "user/logoutUser/rejected" ->
            [state EXCEPT !.isLoading = FALSE, !.error = action.payload]
      [] action.type = "user/fetchUserProfile/pending" ->
            [state EXCEPT !.isLoading = TRUE, !.error = NullText]
      [] action.type = "user/fetchUserProfile/fulfilled" ->
            [state EXCEPT !.isLoading = FALSE, !.userData = action.payload, !.error = NullText]
      [] action.type = "user/fetchUserProfile/rejected" ->
            fetchUserProfileRejected(state, action)
      [] OTHER -> state

\* ---- inputs -------------------------------------------------------------
Credentials ==
    { [username |-> "john_doe", password |-> "password"],
      [username |-> "jane_smith", password |-> "password"],
      [username |-> "john_doe", password |-> "secret"],
      [username |-> "mallory", password |-> "password"] }

ProfileUpdates == { [name |-> "J. Smith"], [role |-> "admin"] }

NoneSettled == [id |-> 0, type |-> "", arg |-> <<>>, outcome |-> "", payload |-> NullText]

\* ---- operations ----------------------------------------------------------
\* the slice's own actions, dispatched by a component
DispatchUserAction ==
    \E action \in { Action("user/clearError", <<>>), Action("user/resetLoginAttempts", <<>>),
                     Action("user/expireToken", <<>>) }
                   \cup { Action("user/updateProfile", updates) : updates \in ProfileUpdates } :
        /\ user' = userReducer(user, action, now)
        /\ UNCHANGED <<userThunks, nextThunk, lastSettled, loginRole, nonUserVars>>

\* dispatch(loginUser(credentials)): pending is reduced at once
Login ==
    \E credentials \in Credentials :
        /\ nextThunk < MaxUserThunks
        /\ nextThunk' = nextThunk + 1
        /\ userThunks' = userThunks \cup
              {[id |-> nextThunk + 1, type |-> "loginUser", arg |-> <<credentials>>,
                seen |-> <<>>]}
        /\ user' = userReducer(user, Action("user/loginUser/pending", <<>>), now)
        /\ UNCHANGED <<lastSettled, loginRole, nonUserVars>>

\* dispatch(logoutUser())
Logout ==
    /\ nextThunk < MaxUserThunks
    /\ nextThunk' = nextThunk + 1
    /\ userThunks' = userThunks \cup
          {[id |-> nextThunk + 1, type |-> "logoutUser", arg |-> <<>>, seen |-> <<>>]}
    /\ user' = userReducer(user, Action("user/logoutUser/pending", <<>>), now)
    /\ UNCHANGED <<lastSettled, loginRole, nonUserVars>>

\* dispatch(fetchUserProfile()): pending is reduced, then the payload creator
\* reads getState().user before its first await
FetchUserProfile ==
    /\ nextThunk < MaxUserThunks
    /\ nextThunk' = nextThunk + 1
    /\ user' = userReducer(user, Action("user/fetchUserProfile/pending", <<>>), now)
    /\ userThunks' = userThunks \cup
          {[id |-> nextThunk + 1, type |-> "fetchUserProfile", arg |-> <<>>,
            seen |-> << [token |-> user'.token, userData |-> user'.userData] >>]}
    /\ UNCHANGED <<lastSettled, loginRole, nonUserVars>>

Settle(t, outcome, payload) ==
    /\ userThunks' = userThunks \ {t}
    /\ lastSettled' = [id |-> t.id, type |-> t.type, arg |-> t.arg,
                       outcome |-> outcome, payload |-> payload]
    /\ UNCHANGED <<nextThunk, nonUserVars>>

\* the mock authentication accepted the credentials
LoginFulfilled ==
    \E t \in userThunks :
        /\ t.type = "loginUser"
        /\ LET result == loginUser(t.arg[1], now)
           IN  /\ result.outcome = "fulfilled"
               /\ user' = userReducer(user, Action("user/loginUser/fulfilled",
                               [user |-> result.user, token |-> result.token]), now)
               /\ loginRole' = result.user[1].role
               /\ Settle(t, "fulfilled", NullText)

\* rejectWithValue('Invalid credentials')
LoginRejected ==
    \E t \in userThunks :
        /\ t.type = "loginUser"
        /\ LET result == loginUser(t.arg[1], now)
           IN  /\ result.outcome = "rejected"
               /\ user' = userReducer(user, Action("user/loginUser/rejected",
                                                   result.payload), now)
               /\ Settle(t, "rejected", result.payload)
        /\ UNCHANGED loginRole

\* the payload creator of logoutUser returns true: nothing in it can throw
LogoutFulfilled ==
    \E t \in userThunks :
        /\ t.type = "logoutUser"
        /\ user' = userReducer(user, Action("user/logoutUser/fulfilled", <<>>), now)
        /\ Settle(t, "fulfilled", NullText)
        /\ UNCHANGED loginRole

\* the profile request returns the userData it saw when it started
FetchUserProfileFulfilled ==
    \E t \in userThunks :
        /\ t.type = "fetchUserProfile"
        /\ LET result == fetchUserProfile(t.seen[1])
           IN  /\ result.outcome = "fulfilled"
               /\ user' = userReducer(user, Action("user/fetchUserProfile/fulfilled",
                                                   result.user), now)
               /\ Settle(t, "fulfilled", NullText)
        /\ UNCHANGED loginRole

\* rejectWithValue('No authentication token')
FetchUserProfileRejected ==
    \E t \in userThunks :
        /\ t.type = "fetchUserProfile"
        /\ LET result == fetchUserProfile(t.seen[1])
           IN  /\ result.outcome = "rejected"
               /\ user' = userReducer(user, Action("user/fetchUserProfile/rejected",
                                                   result.payload), now)
               /\ Settle(t, "rejected", result.payload)
        /\ UNCHANGED loginRole

\* ------------------------------------------------------------------------
\* store.js: dispatch through errorMiddleware, the last middleware of the
\* chain; next is the store's own dispatch (root reducer, then subscribers)
\* ------------------------------------------------------------------------
\* the root reducer raises when a slice reducer does
reducerThrows(action) ==
    action.type = "user/fetchUserProfile/rejected" /\ fetchUserProfileRejectedThrows(action)

\* next(action): the reducer runs, the new state is stored, the subscribers
\* are called. An exception of the reducer leaves the state as it was; an
\* exception of a subscriber comes after the state was replaced.
baseDispatch(state, action, clock, subscriberThrows) ==
    IF reducerThrows(action)
    THEN [state |-> state, applied |-> 0, raised |-> TRUE, reducerThrew |-> TRUE]
    ELSE [state |-> userReducer(state, action, clock), applied |-> 1,
          raised |-> subscriberThrows, reducerThrew |-> FALSE]

\* try { return next(action) } catch (error) { ...; return next(action) }
errorMiddleware(state, action, clock, throwsFirst, throwsAgain) ==
    LET first == baseDispatch(state, action, clock, throwsFirst)
    IN  IF ~first.raised
        THEN [state |-> first.state, handed |-> 1, applied |-> first.applied,
              raised |-> FALSE, reducerThrew |-> FALSE]
        ELSE LET again == baseDispatch(first.state, action, clock, throwsAgain)
             IN  [state |-> again.state, handed |-> 2,
                  applied |-> first.applied + again.applied,
                  raised |-> again.raised,
                  reducerThrew |-> first.reducerThrew \/ again.reducerThrew]

\* ---- inputs -------------------------------------------------------------
\* reducer actions of the user slice, as the components dispatch them
SliceActions ==
    { Action("user/clearError", <<>>), Action("user/resetLoginAttempts", <<>>),
      Action("user/expireToken", <<>>) }
    \cup { Action("user/updateProfile", updates) : updates \in ProfileUpdates }

\* rejections as the thunks dispatch them; an aborted thunk is rejected
\* without a payload
RejectedActions ==
    { Action("user/loginUser/rejected", InvalidCredentials),
      Action("user/fetchUserProfile/rejected", NoAuthenticationToken),
      Action("user/fetchUserProfile/rejected", Undefined) }

\* loginUser.fulfilled for the first two mock users
FulfilledActions ==
    { Action("user/loginUser/fulfilled",
             [user |-> <<mockUsers[i]>>, token |-> << [userId |-> i, at |-> FirstNow] >>]) :
        i \in 1..2 }

NoDispatch ==
    [type |-> "", payload |-> NullText, handed |-> 0, applied |-> 0, raised |-> FALSE,
     reducerThrew |-> FALSE]

\* what the history keeps of a dispatch
Handled(action, payload, result) ==
    [type |-> action.type, payload |-> payload, handed |-> result.handed,
     applied |-> result.applied, raised |-> result.raised,
     reducerThrew |-> result.reducerThrew]

\* store.dispatch(action), as far as errorMiddleware and what follows it,
\* for a reducer action of the slice
DispatchSliceAction ==
    \E action \in SliceActions : \E throwsFirst, throwsAgain \in BOOLEAN :
        LET result == errorMiddleware(user, action, now, throwsFirst, throwsAgain)
        IN  /\ user' = result.state
            /\ lastDispatch' = Handled(action, NullText, result)
            /\ UNCHANGED <<userThunks, nextThunk, lastSettled, loginRole, todoVars,
                           selVars, apiVars, pageVars, memoVars, keyVars, commentVars, appVars>>

\* the same for the rejection of a thunk
DispatchRejected ==
    \E action \in RejectedActions : \E throwsFirst, throwsAgain \in BOOLEAN :
        /\ action.type = "user/loginUser/rejected" => user.loginAttempts < MaxAttempts
        /\ LET result == errorMiddleware(user, action, now, throwsFirst, throwsAgain)
           IN  /\ user' = result.state
               /\ lastDispatch' = Handled(action, action.payload, result)
        /\ UNCHANGED <<userThunks, nextThunk, lastSettled, loginRole, todoVars,
                       selVars, apiVars, pageVars, memoVars, keyVars, commentVars, appVars>>

\* the same for a fulfilled login
DispatchLoginFulfilled ==
    \E action \in FulfilledActions : \E throwsFirst, throwsAgain \in BOOLEAN :
        LET result == errorMiddleware(user, action, now, throwsFirst, throwsAgain)
        IN  /\ user' = result.state
            /\ lastDispatch' = Handled(action, NullText, result)
            /\ UNCHANGED <<userThunks, nextThunk, lastSettled, loginRole, todoVars,
                           selVars, apiVars, pageVars, memoVars, keyVars, commentVars, appVars>>

\* ------------------------------------------------------------------------
\* App.jsx: the handlers and the auto-dismiss effect;  useRedux.js:
\* useNotifications
\* ------------------------------------------------------------------------
ErrorDuration == 5000

LoggedOut   == "Logged out successfully"
PostCreated == "Post created successfully!"
WelcomeBack == "Welcome back"
LoginFailed == "Login failed"

\* useNotifications.showSuccess(message), showInfo(message), showError(message)
showSuccess(state, message, clock) ==
    addNotification(state, Action("ui/addNotification",
        [type |-> "success", message |-> message, duration |-> ShortDuration]), clock)

showInfo(state, message, clock) ==
    addNotification(state, Action("ui/addNotification",
        [type |-> "info", message |-> message, duration |-> ShortDuration]), clock)

showError(state, message, clock) ==
    addNotification(state, Action("ui/addNotification",
        [type |-> "error", message |-> message, duration |-> ErrorDuration]), clock)

\* useNotifications.removeNotification(id): inside the hook the const of this
\* name shadows the imported action creator, so the callback calls itself
\* until the stack overflows; dispatch is never reached and the state stays
useNotificationsRemoveNotification(state, id) == [state |-> state, raised |-> TRUE]

\* the auto-dismiss effect, run after a render with a new notifications array:
\* one timeout for every notification that has a duration
autoDismissEffect(running, notifications, clock) ==
    running \cup { [id |-> notifications[i].id, due |-> clock + notifications[i].duration] :
                     i \in { j \in 1..Len(notifications) : notifications[j].duration # 0 } }

\* the text showError is given: error || 'Login failed'
ErrorText(payload) ==
    IF payload = InvalidCredentials THEN "Invalid credentials" ELSE LoginFailed

\* handleLogin, .then: the login was fulfilled, the welcome is shown
LoginThen ==
    \E t \in userThunks :
        /\ t.type = "loginUser"
        /\ LET result == loginUser(t.arg[1], now)
           IN  /\ result.outcome = "fulfilled"
               /\ user' = userReducer(user, Action("user/loginUser/fulfilled",
                               [user |-> result.user, token |-> result.token]), now)
               /\ loginRole' = result.user[1].role
        /\ userThunks' = userThunks \ {t}
        /\ lastSettled' = [id |-> t.id, type |-> t.type, arg |-> t.arg,
                           outcome |-> "fulfilled", payload |-> NullText]
        /\ succeeded' = succeeded \cup {t.type}
        /\ ui' = showSuccess(ui, WelcomeBack, now)
        /\ refs' = [refs EXCEPT !.notifications = @ + 1]
        /\ timers' = autoDismissEffect(timers, ui'.notifications, now)
        /\ UNCHANGED <<nextThunk, overflowed, memo, runs, lastRead, todoVars, selVars, apiVars,
                       pageVars, keyVars, storeVars, commentVars>>

\* handleLogin, .catch: the login was rejected, the reason is shown
LoginCatch ==
    \E t \in userThunks :
        /\ t.type = "loginUser"
        /\ LET result == loginUser(t.arg[1], now)
           IN  /\ result.outcome = "rejected"
               /\ user' = userReducer(user, Action("user/loginUser/rejected",
                                                   result.payload), now)
               /\ lastSettled' = [id |-> t.id, type |-> t.type, arg |-> t.arg,
                                  outcome |-> "rejected", payload |-> result.payload]
               /\ ui' = showError(ui, ErrorText(result.payload), now)
        /\ userThunks' = userThunks \ {t}
        /\ refs' = [refs EXCEPT !.notifications = @ + 1]
        /\ timers' = autoDismissEffect(timers, ui'.notifications, now)
        /\ UNCHANGED <<nextThunk, loginRole, succeeded, overflowed, memo, runs, lastRead,
                       todoVars, selVars, apiVars, pageVars, keyVars, storeVars, commentVars>>

\* handleLogout: user.logout() dispatches the thunk, then showInfo is called
HandleLogout ==
    /\ user.isAuthenticated
    /\ nextThunk < MaxUserThunks
    /\ nextThunk' = nextThunk + 1
    /\ userThunks' = userThunks \cup
          {[id |-> nextThunk + 1, type |-> "logoutUser", arg |-> <<>>, seen |-> <<>>]}
    /\ user' = userReducer(user, Action("user/logoutUser/pending", <<>>), now)
    /\ ui' = showInfo(ui, LoggedOut, now)
    /\ refs' = [refs EXCEPT !.notifications = @ + 1]
    /\ timers' = autoDismissEffect(timers, ui'.notifications, now)
    /\ UNCHANGED <<lastSettled, loginRole, succeeded, overflowed, memo, runs, lastRead,
                   todoVars, selVars, apiVars, pageVars, keyVars, storeVars, commentVars>>

\* the logout thunk is fulfilled; App does nothing on it
LogoutSettled ==
    \E t \in userThunks :
        /\ t.type = "logoutUser"
        /\ user' = userReducer(user, Action("user/logoutUser/fulfilled", <<>>), now)
        /\ userThunks' = userThunks \ {t}
        /\ lastSettled' = [id |-> t.id, type |-> t.type, arg |-> t.arg,
                           outcome |-> "fulfilled", payload |-> NullText]
        /\ succeeded' = succeeded \cup {t.type}
        /\ UNCHANGED <<nextThunk, loginRole, timers, overflowed, memoVars, todoVars, selVars,
                       apiVars, pageVars, keyVars, storeVars, commentVars>>

\* handleCreatePost with a title and a body: posts.createPost(newPost)
\* dispatches the thunk, then showSuccess is called
HandleCreatePost ==
    /\ user.isAuthenticated
    /\ nextThunk < MaxUserThunks
    /\ nextThunk' = nextThunk + 1
    /\ userThunks' = userThunks \cup
          {[id |-> nextThunk + 1, type |-> "createPost", arg |-> <<>>, seen |-> <<>>]}
    /\ ui' = showSuccess(ui, PostCreated, now)
    /\ refs' = [refs EXCEPT !.notifications = @ + 1]
    /\ timers' = autoDismissEffect(timers, ui'.notifications, now)
    /\ UNCHANGED <<user, lastSettled, loginRole, succeeded, overflowed, memo, runs, lastRead,
                   todoVars, selVars, apiVars, pageVars, keyVars, storeVars, commentVars>>

\* the create operation succeeded; App does nothing on it
CreatePostFulfilled ==
    \E t \in userThunks :
        /\ t.type = "createPost"
        /\ userThunks' = userThunks \ {t}
        /\ lastSettled' = [id |-> t.id, type |-> t.type, arg |-> t.arg,
                           outcome |-> "fulfilled", payload |-> NullText]
        /\ succeeded' = succeeded \cup {t.type}
        /\ UNCHANGED <<user, nextThunk, loginRole, timers, overflowed, memoVars, todoVars,
                       selVars, apiVars, pageVars, keyVars, storeVars, commentVars>>

\* the create operation failed; App does nothing on it
CreatePostRejected ==
    \E t \in userThunks :
        /\ t.type = "createPost"
        /\ userThunks' = userThunks \ {t}
        /\ lastSettled' = [id |-> t.id, type |-> t.type, arg |-> t.arg,
                           outcome |-> "rejected", payload |-> NullText]
        /\ UNCHANGED <<user, nextThunk, loginRole, succeeded, timers, overflowed, memoVars,
                       todoVars, selVars, apiVars, pageVars, keyVars, storeVars, commentVars>>

\* a timeout of the auto-dismiss effect fires: it calls
\* notifications.removeNotification(notification.id)
TimerFires ==
    \E timer \in timers :
        /\ now >= timer.due
        /\ LET result == useNotificationsRemoveNotification(ui, timer.id)
           IN  /\ ui' = result.state
               /\ overflowed' = (overflowed \/ result.raised)
               /\ refs' = IF result.state = ui THEN refs
                          ELSE [refs EXCEPT !.notifications = @ + 1]
               /\ timers' = IF result.state = ui THEN timers \ {timer}
                            ELSE autoDismissEffect(timers \ {timer},
                                                   result.state.notifications, now)
        /\ UNCHANGED <<succeeded, memo, runs, lastRead, userVars, todoVars, selVars, apiVars,
                       pageVars, keyVars, storeVars, commentVars>>

\* the close button of a notification: the same call
CloseNotification ==
    \E i \in 1..Len(ui.notifications) :
        /\ LET result == useNotificationsRemoveNotification(ui, ui.notifications[i].id)
           IN  /\ ui' = result.state
               /\ overflowed' = (overflowed \/ result.raised)
               /\ refs' = IF result.state = ui THEN refs
                          ELSE [refs EXCEPT !.notifications = @ + 1]
               /\ timers' = IF result.state = ui THEN timers
                            ELSE autoDismissEffect(timers, result.state.notifications, now)
        /\ UNCHANGED <<succeeded, memo, runs, lastRead, userVars, todoVars, selVars, apiVars,
                       pageVars, keyVars, storeVars, commentVars>>

\* ---- selectors.js: the user selectors ------------------------------------
\* user?.role || 'guest'
selectUserRole(state) ==
    IF state.userData # <<>> /\ state.userData[1].role # ""
    THEN state.userData[1].role
    ELSE "guest"

selectIsAdmin(state) == selectUserRole(state) = "admin"

selectUserPermissions(state) ==
    LET isAdmin == selectIsAdmin(state)
        isAuthenticated == state.isAuthenticated
    IN  [canCreatePosts |-> isAuthenticated, canEditPosts |-> isAuthenticated,
         canDeletePosts |-> isAdmin, canManageUsers |-> isAdmin,
         canViewAdminPanel |-> isAdmin]

TodosInit ==
    /\ todos = todoInitialState
    /\ thunks = {}
    /\ nextRequest = 0
    /\ settled = {}
    /\ now = FirstNow

TodosNext ==
    \/ AddTodo
    \/ DeleteTodo
    \/ ToggleTodo
    \/ ClearError
    \/ FetchTodos
    \/ FetchTodosFulfilled
    \/ FetchTodosRejected
    \/ Tick


\* ------------------------------------------------------------------------
\* apiSlice.js: createApi({ baseQuery: baseQueryWithRetry, tagTypes, endpoints })
\* The cache reducer and middleware are those createApi generates; the
\* endpoints, their tags and the retrying base query are the slice's own.
\* The components that read the slice stay mounted (RTKQueryExample is
\* rendered unconditionally by App), so a subscription is never dropped.
\* ------------------------------------------------------------------------

\* the query calls made: useGetPostsQuery({ page: 1, limit: 5 }),
\* useGetPostByIdQuery(1); arguments are written as tuples
QueryKeyOrder ==
    << [endpoint |-> "getPosts", arg |-> <<1, 5>>],
       [endpoint |-> "getPostById", arg |-> <<1>>] >>

QueryKeys == { QueryKeyOrder[i] : i \in 1..Len(QueryKeyOrder) }

\* the mounted query hooks: two components read the post list, one reads
\* post 1
Readers ==
    [k \in QueryKeys |-> IF k.endpoint = "getPosts" THEN {"r1", "r2"} ELSE {"r3"}]

\* the mutation calls made: createPost(newPost), updatePost({ id: 1, ... }),
\* deletePost(1)
MutationCalls ==
    { [endpoint |-> "createPost", arg |-> <<>>],
      [endpoint |-> "updatePost", arg |-> <<1>>],
      [endpoint |-> "deletePost", arg |-> <<1>>] }

\* 'Post'  and  { type: 'Post', id }
Tag(type) == [type |-> type, id |-> <<>>]
TagWithId(type, id) == [type |-> type, id |-> <<id>>]

\* providesTags of the query endpoints
providesTags(endpoint, result, error, arg) ==
    CASE endpoint = "getPosts"    -> {Tag("Post")}
      [] endpoint = "getPostById" -> {TagWithId("Post", arg[1])}
      [] endpoint = "getComments" ->
            {TagWithId("Comment", arg[1])}
            \cup (IF result = <<>> THEN {}
                  ELSE {TagWithId("Comment", result[1][i].id) : i \in 1..Len(result[1])})
      [] OTHER -> {}

\* a createPost that names no tag
invalidatesTagsCreateNone(endpoint, result, error, arg) ==
    CASE endpoint = "updatePost" -> {TagWithId("Post", arg[1])}
      [] endpoint = "deletePost" -> {TagWithId("Post", arg[1])}
      [] endpoint = "createComment" -> {TagWithId("Comment", arg[1].postId)}
      [] OTHER -> {}

\* invalidatesTags of the mutation endpoints; the callbacks take
\* (result, error, arg) and use arg only
invalidatesTags(endpoint, result, error, arg) ==
    CASE endpoint = "createPost" -> {Tag("Post")}
      [] endpoint = "updatePost" -> {TagWithId("Post", arg[1])}
      [] endpoint = "deletePost" -> {TagWithId("Post", arg[1])}
      [] endpoint = "createComment" -> {TagWithId("Comment", arg[1].postId)}
      [] OTHER -> {}

\* which provided tag sets a tag invalidates: a tag with an id selects the
\* entries that provide exactly that tag, a tag without id selects every
\* entry that provides a tag of its type
TagSelects(tag, providedTags) ==
    IF tag.id = <<>>
    THEN \E p \in providedTags : p.type = tag.type
    ELSE tag \in providedTags

\* ---- the comment endpoints ----------------------------------------------
CommentPosts == 1..MaxCommentPosts

\* GET /posts/:postId/comments of the API the base URL names: comment ids
\* are numbered through all posts, CommentsPerPost to a post
ServerComments(postId) ==
    [i \in 1..CommentsPerPost |->
        [id |-> (postId - 1) * CommentsPerPost + i, postId |-> postId]]

NoComments == [status |-> "uninitialized", data |-> <<>>, tags |-> {}]

\* useGetCommentsQuery(postId): the query is started
GetComments ==
    \E postId \in CommentPosts :
        /\ comments[postId].status = "uninitialized"
        /\ comments' = [comments EXCEPT ![postId].status = "pending"]
        /\ UNCHANGED <<commentMutations, createdComments, lastInvalidated, todoVars, selVars,
                       apiVars, pageVars, memoVars, keyVars, userVars, storeVars, appVars>>

\* the query is fulfilled: the result is cached with the tags it provides
GetCommentsFulfilled ==
    \E postId \in CommentPosts :
        /\ comments[postId].status = "pending"
        /\ LET result == ServerComments(postId)
           IN  comments' = [comments EXCEPT ![postId] =
                   [status |-> "fulfilled", data |-> result,
                    tags |-> providesTags("getComments", <<result>>, NULL, <<postId>>)]]
        /\ UNCHANGED <<commentMutations, createdComments, lastInvalidated, todoVars, selVars,
                       apiVars, pageVars, memoVars, keyVars, userVars, storeVars, appVars>>

\* the query is rejected: the tags are computed without a result
GetCommentsRejected ==
    \E postId \in CommentPosts :
        /\ comments[postId].status = "pending"
        /\ comments' = [comments EXCEPT ![postId].status = "rejected",
                                        ![postId].tags =
                            providesTags("getComments", <<>>, "FETCH_ERROR", <<postId>>)]
        /\ UNCHANGED <<commentMutations, createdComments, lastInvalidated, todoVars, selVars,
                       apiVars, pageVars, memoVars, keyVars, userVars, storeVars, appVars>>

\* useCreateCommentMutation: createComment({ postId, ... }) is started
CreateComment ==
    \E postId \in CommentPosts :
        /\ createdComments < MaxCreatedComments
        /\ postId \notin commentMutations
        /\ createdComments' = createdComments + 1
        /\ commentMutations' = commentMutations \cup {postId}
        /\ UNCHANGED <<comments, lastInvalidated, todoVars, selVars,
                       apiVars, pageVars, memoVars, keyVars, userVars, storeVars, appVars>>

\* the cache entries a set of tags invalidates
InvalidatedBy(tags) ==
    { key \in CommentPosts : \E tag \in tags : TagSelects(tag, comments[key].tags) }

\* createComment is fulfilled: the entries its tags select are invalidated;
\* those not already being fetched are fetched again for their subscribers
CreateCommentFulfilled ==
    \E postId \in commentMutations :
        LET tags == invalidatesTags("createComment", 0, NULL, <<[postId |-> postId]>>)
            invalidated == InvalidatedBy(tags)
        IN  /\ commentMutations' = commentMutations \ {postId}
            /\ lastInvalidated' = [postId |-> postId, keys |-> invalidated]
            /\ comments' = [key \in CommentPosts |->
                    IF key \in invalidated /\ comments[key].status # "pending"
                    THEN [comments[key] EXCEPT !.status = "pending"]
                    ELSE comments[key]]
            /\ UNCHANGED <<createdComments, todoVars, selVars,
                           apiVars, pageVars, memoVars, keyVars, userVars, storeVars, appVars>>

\* ---- baseQueryWithRetry -------------------------------------------------
\* results of fetchBaseQuery: { data } or { error: { status } }
ErrorStatuses == {"FETCH_ERROR", "404"}

OkResult(payload) == [data |-> payload, error |-> NULL]
ErrorResult(status) == [data |-> 0, error |-> status]

\* what one baseQuery call of thunk e may return; the payload of a
\* successful call is a new object, named by the request that fetched it
BaseQueryResults(e) == {OkResult(e.id)} \cup { ErrorResult(st) : st \in ErrorStatuses }

shouldRetryAnyError(result) == result.error # NULL

\* result.error && result.error.status === 'FETCH_ERROR'
shouldRetry(result) == result.error # NULL /\ result.error = "FETCH_ERROR"

\* baseQueryWithRetry hands result back: it is the result of the second
\* call, or of a first call that is not retried
Returns(e, result) == ~(e.attempts = <<>> /\ shouldRetry(result))

\* ---- the cache -----------------------------------------------------------
\* data = 0: no payload (and no fulfilledTimeStamp) yet
NoEntry == [status |-> "uninitialized", data |-> 0, error |-> NULL, requestId |-> 0]

conditionIgnoringPending(entry, forced) ==
    IF forced THEN TRUE
    ELSE IF entry.data # 0 THEN FALSE
    ELSE TRUE

\* whether a query thunk runs: not while the entry's request is in flight;
\* otherwise when forced, or when nothing was fetched yet
QueryCondition(entry, forced) ==
    IF entry.status = "pending" THEN FALSE
    ELSE IF forced THEN TRUE
    ELSE IF entry.data # 0 THEN FALSE
    ELSE TRUE

\* the counter that numbers the mutation thunks
Mutations == [endpoint |-> "mutations", arg |-> <<>>]

\* a thunk and its request id: the n-th request of a cache key, the n-th
\* mutation
NewExec(id, kind, call) ==
    [id |-> id, kind |-> kind, endpoint |-> call.endpoint, arg |-> call.arg,
     attempts |-> <<>>]

\* the api state a step works on
ApiState == [queries |-> queries, provided |-> provided, inflight |-> inflight,
             nextExec |-> nextExec]

\* initiate(arg, { forceRefetch }) for key k: the pending action makes the
\* entry pending under a new request id and the loader is invoked
Initiate(st, k, forced) ==
    IF QueryCondition(st.queries[k], forced)
    THEN [st EXCEPT !.queries[k].status = "pending",
                    !.queries[k].requestId = st.nextExec[k] + 1,
                    !.inflight = @ \cup {NewExec(st.nextExec[k] + 1, "query", k)},
                    !.nextExec[k] = @ + 1]
    ELSE st

RECURSIVE InvalidateKeys(_, _, _)
\* the invalidation middleware over the keys selected by the tags: an entry
\* nobody subscribes to is removed, a subscribed one is refetched
InvalidateKeys(keys, st, tags) ==
    IF keys = <<>> THEN st
    ELSE LET k == Head(keys)
             selected == \E t \in tags : TagSelects(t, st.provided[k])
             next == IF ~selected THEN st
                     ELSE IF subscriptions[k] = {}
                          THEN [st EXCEPT !.queries[k] = NoEntry, !.provided[k] = {}]
                     ELSE IF st.queries[k].status # "uninitialized"
                          THEN Initiate(st, k, TRUE)
                     ELSE st
         IN  InvalidateKeys(Tail(keys), next, tags)

\* ---- the other slice reducers see every api action ------------------------
ApiAction(type, e, result) ==
    [type |-> type, payload |-> result, endpoint |-> e.endpoint, arg |-> e.arg]

NewPost == [id |-> 101, title |-> <<"a">>, body |-> <<"b">>, userId |-> 1, category |-> "news"]

\* the posts slice: a confirmed mutation inserts, merges or removes the
\* record; nothing else of the api slice touches the collection
postsReducer(state, action) ==
    IF action.type = "api/executeMutation/fulfilled"
    THEN CASE action.endpoint = "createPost" ->
                [state EXCEPT !.posts = Append(@, NewPost)]
           [] action.endpoint = "updatePost" ->
                [state EXCEPT !.posts =
                    [i \in 1..Len(@) |->
                        IF @[i].id = action.arg[1] THEN [@[i] EXCEPT !.title = <<"B">>]
                        ELSE @[i]]]
           [] action.endpoint = "deletePost" ->
                LET Keep(post) == post.id # action.arg[1]
                IN  [state EXCEPT !.posts = SelectSeq(@, Keep)]
           [] OTHER -> state
    ELSE state

\* the store reduces action, then one executeQuery/pending per refetch started
RECURSIVE Repeat(_, _)
Repeat(x, n) == IF n = 0 THEN <<>> ELSE <<x>> \o Repeat(x, n - 1)

\* the query thunks a step started
Started(st) == Cardinality({ e \in st.inflight \ inflight : e.kind = "query" })

RECURSIVE reduceTodos(_, _, _)
reduceTodos(state, actions, clock) ==
    IF actions = <<>> THEN state
    ELSE reduceTodos(todoReducer(state, Head(actions), clock), Tail(actions), clock)

RECURSIVE reducePosts(_, _)
reducePosts(state, actions) ==
    IF actions = <<>> THEN state
    ELSE reducePosts(postsReducer(state, Head(actions)), Tail(actions))

PendingQuery == [type |-> "api/executeQuery/pending", payload |-> NULL,
                 endpoint |-> "", arg |-> <<>>]

\* the step's api state st and dispatched actions reach the store
Commit(st, actions) ==
    /\ queries' = st.queries
    /\ provided' = st.provided
    /\ inflight' = st.inflight
    /\ nextExec' = st.nextExec
    /\ todos' = reduceTodos(todos, actions, now)
    /\ posts' = reducePosts(posts, actions)
    /\ UNCHANGED <<thunks, nextRequest, settled, now, filteredView, derivedVars>>

NoneDone == [kind |-> "none", attempts |-> <<>>, result |-> OkResult(0)]

\* the record of a settled thunk: what its baseQuery calls returned and what
\* baseQueryWithRetry handed back
Settled(e, result) ==
    [kind |-> e.kind, attempts |-> Append(e.attempts, result), result |-> result]

\* ---- operations ----------------------------------------------------------

\* a component mounts a query hook for key k
Subscribe ==
    \E k \in QueryKeys : \E r \in Readers[k] :
        /\ r \notin subscriptions[k]
        /\ subscriptions' = [subscriptions EXCEPT ![k] = @ \cup {r}]
        /\ LET st == Initiate(ApiState, k, FALSE)
           IN  Commit(st, Repeat(PendingQuery, Started(st)))
        /\ UNCHANGED <<lastDone, issued, staleAfterCreate>>

\* refetch() of a mounted query hook
Refetch ==
    \E k \in QueryKeys :
        /\ subscriptions[k] # {}
        /\ issued < MaxIssued
        /\ issued' = issued + 1
        /\ LET st == Initiate(ApiState, k, TRUE)
           IN  Commit(st, Repeat(PendingQuery, Started(st)))
        /\ UNCHANGED <<lastDone, subscriptions, staleAfterCreate>>

\* a component calls a mutation trigger
Mutate ==
    \E m \in MutationCalls :
        /\ issued < MaxIssued
        /\ issued' = issued + 1
        /\ LET e == NewExec(nextExec[Mutations] + 1, "mutation", m)
               st == [ApiState EXCEPT !.inflight = @ \cup {e}, !.nextExec[Mutations] = @ + 1]
           IN  Commit(st, <<ApiAction("api/executeMutation/pending", e, NULL)>>)
        /\ UNCHANGED <<lastDone, subscriptions, staleAfterCreate>>

\* the first baseQuery call of a thunk failed in transport: baseQuery is
\* called again
RetryBaseQuery ==
    \E e \in inflight :
        \E result \in BaseQueryResults(e) :
            /\ e.attempts = <<>>
            /\ shouldRetry(result)
            /\ inflight' = (inflight \ {e}) \cup {[e EXCEPT !.attempts = <<result>>]}
            /\ UNCHANGED <<queries, provided, subscriptions, lastDone, nextExec, issued,
                           staleAfterCreate, todoVars, selVars, derivedVars>>

\* a query's loader returned data: executeQuery/fulfilled
QueryFulfilled ==
    \E e \in inflight :
        \E result \in BaseQueryResults(e) :
            /\ e.kind = "query"
            /\ Returns(e, result)
            /\ result.error = NULL
            /\ LET k == [endpoint |-> e.endpoint, arg |-> e.arg]
                   mine == queries[k].requestId = e.id
                   st == [ApiState EXCEPT
                            !.inflight = @ \ {e},
                            !.queries[k] = IF mine
                                           THEN [status |-> "fulfilled", data |-> result.data,
                                                 error |-> NULL, requestId |-> e.id]
                                           ELSE @,
                            !.provided[k] = providesTags(e.endpoint, result.data, NULL, e.arg)]
               IN  Commit(st, <<ApiAction("api/executeQuery/fulfilled", e, result)>>)
            /\ lastDone' = Settled(e, result)
            /\ UNCHANGED <<subscriptions, issued, staleAfterCreate>>

\* a query's loader returned an error: executeQuery/rejected
QueryRejected ==
    \E e \in inflight :
        \E result \in BaseQueryResults(e) :
            /\ e.kind = "query"
            /\ Returns(e, result)
            /\ result.error # NULL
            /\ LET k == [endpoint |-> e.endpoint, arg |-> e.arg]
                   mine == queries[k].requestId = e.id
                   st == [ApiState EXCEPT
                            !.inflight = @ \ {e},
                            !.queries[k] = IF mine
                                           THEN [@ EXCEPT !.status = "rejected",
                                                          !.error = result.error]
                                           ELSE @,
                            !.provided[k] = providesTags(e.endpoint, NULL, result.error, e.arg)]
               IN  Commit(st, <<ApiAction("api/executeQuery/rejected", e, result)>>)
            /\ lastDone' = Settled(e, result)
            /\ UNCHANGED <<subscriptions, issued, staleAfterCreate>>

\* the cached payloads of the getPosts entries
CachedPostLists ==
    [k \in QueryKeys |->
        IF k.endpoint = "getPosts" /\ queries[k].data # 0 THEN {queries[k].data} ELSE {}]

\* a mutation's request succeeded: executeMutation/fulfilled, then the
\* invalidation of its tags
MutationFulfilled ==
    \E e \in inflight :
        \E result \in BaseQueryResults(e) :
            /\ e.kind = "mutation"
            /\ Returns(e, result)
            /\ result.error = NULL
            /\ LET tags == invalidatesTags(e.endpoint, result.data, NULL, e.arg)
                   st == InvalidateKeys(QueryKeyOrder,
                                        [ApiState EXCEPT !.inflight = @ \ {e}], tags)
               IN  Commit(st, <<ApiAction("api/executeMutation/fulfilled", e, result)>>
                              \o Repeat(PendingQuery, Started(st)))
            /\ lastDone' = Settled(e, result)
            /\ staleAfterCreate' =
                  IF e.endpoint = "createPost"
                  THEN [k \in QueryKeys |-> staleAfterCreate[k] \cup CachedPostLists[k]]
                  ELSE staleAfterCreate
            /\ UNCHANGED <<subscriptions, issued>>

\* a mutation's request failed (rejectWithValue of the error result):
\* executeMutation/rejected, then the invalidation of its tags
MutationRejected ==
    \E e \in inflight :
        \E result \in BaseQueryResults(e) :
            /\ e.kind = "mutation"
            /\ Returns(e, result)
            /\ result.error # NULL
            /\ LET tags == invalidatesTags(e.endpoint, NULL, result.error, e.arg)
                   st == InvalidateKeys(QueryKeyOrder,
                                        [ApiState EXCEPT !.inflight = @ \ {e}], tags)
               IN  Commit(st, <<ApiAction("api/executeMutation/rejected", e, result)>>
                              \o Repeat(PendingQuery, Started(st)))
            /\ lastDone' = Settled(e, result)
            /\ UNCHANGED <<subscriptions, issued, staleAfterCreate>>

\* ------------------------------------------------------------------------
\* Specifications
\* ------------------------------------------------------------------------
LoadedTodos ==
    [list |-> << [id |-> 1, title |-> "delectus", completed |-> FALSE, userId |-> 1] >>,
     status |-> "succeeded", error |-> NULL]

DefaultFilters ==
    [search |-> <<>>, category |-> "all", sortBy |-> "date", sortOrder |-> "desc"]

SelIdle ==
    /\ posts = [posts |-> <<>>, filters |-> DefaultFilters]
    /\ filteredView = NoView

ApiIdle ==
    /\ queries = [k \in QueryKeys |-> NoEntry]
    /\ provided = [k \in QueryKeys |-> {}]
    /\ subscriptions = [k \in QueryKeys |-> {}]
    /\ inflight = {}
    /\ lastDone = NoneDone
    /\ nextExec = [c \in QueryKeys \cup {Mutations} |-> 0]
    /\ issued = 0
    /\ staleAfterCreate = [k \in QueryKeys |-> {}]

PageIdle ==
    /\ pageInput = [filtered |-> <<>>, pagination |-> [currentPage |-> 1, itemsPerPage |-> MaxPerPage]]
    /\ pagedView = NoView

MemoIdle ==
    /\ ui = uiInitialState
    /\ refs = [posts |-> 0, filters |-> 0, todos |-> 0, notifications |-> 0]
    /\ memo = [view \in Views |-> EmptyCache]
    /\ runs = [view \in Views |-> 0]
    /\ lastRead = [view \in Views |-> NeverRead]

KeyIdle ==
    /\ requests = <<>>
    /\ resolved = <<>>

UserIdle ==
    /\ user = userInitialState
    /\ userThunks = {}
    /\ nextThunk = 0
    /\ lastSettled = NoneSettled
    /\ loginRole = "guest"

StoreIdle == lastDispatch = NoDispatch

NoneInvalidated == [postId |-> 0, keys |-> {}]

CommentIdle ==
    /\ comments = [postId \in CommentPosts |-> NoComments]
    /\ commentMutations = {}
    /\ createdComments = 0
    /\ lastInvalidated = NoneInvalidated

AppIdle ==
    /\ timers = {}
    /\ succeeded = {}
    /\ overflowed = FALSE

LaterIdle == UserIdle /\ StoreIdle /\ CommentIdle /\ AppIdle

DerivedIdle == PageIdle /\ MemoIdle /\ KeyIdle /\ LaterIdle

vars == <<todoVars, selVars, apiVars, derivedVars>>

\* the todos slice alone: the other slices rest
TodosSpecInit == TodosInit /\ SelIdle /\ ApiIdle /\ DerivedIdle

SpecTodos == TodosSpecInit /\ [][TodosNext]_vars

SelInit ==
    /\ posts \in [posts : PostCollections, filters : FilterSpecs]
    /\ filteredView = NoView

SelNext == ReadFilteredPosts

\* the selector over every bounded posts collection and filter specification
SelSpecInit == SelInit /\ TodosInit /\ ApiIdle /\ DerivedIdle

SpecSel == SelSpecInit /\ [][SelNext]_vars

\* the api slice at work on a store whose todos were fetched and whose
\* posts hold one record
ApiInit ==
    /\ ApiIdle
    /\ DerivedIdle
    /\ thunks = {} /\ nextRequest = 0 /\ settled = {} /\ now = FirstNow
    /\ todos = LoadedTodos
    /\ posts = [posts |-> << [id |-> 1, title |-> <<"a">>, body |-> <<"b">>,
                              userId |-> 1, category |-> "news"] >>,
                filters |-> DefaultFilters]
    /\ filteredView = NoView

ApiNext ==
    \/ Subscribe
    \/ Refetch
    \/ Mutate
    \/ RetryBaseQuery
    \/ QueryFulfilled
    \/ QueryRejected
    \/ MutationFulfilled
    \/ MutationRejected

SpecApi == ApiInit /\ [][ApiNext]_vars

\* selectPaginatedPosts over every bounded filtered sequence and pagination
PageSpecInit ==
    /\ pageInput \in [filtered : FilteredSequences, pagination : PaginationSpecs]
    /\ pagedView = NoView
    /\ TodosInit /\ SelIdle /\ ApiIdle /\ MemoIdle /\ KeyIdle /\ LaterIdle

PageNext == ReadPaginatedPosts

SpecPage == PageSpecInit /\ [][PageNext]_vars

\* the memoized views over a store that holds two posts of one author, while
\* todos and notifications are added and time passes
MemoSpecInit ==
    /\ MemoIdle /\ PageIdle /\ KeyIdle /\ LaterIdle /\ TodosInit /\ ApiIdle
    /\ posts = [posts |-> << [id |-> 2, title |-> <<"b">>, body |-> <<"B", "a">>,
                              userId |-> 1, category |-> "news"],
                            [id |-> 3, title |-> <<"a", "B">>, body |-> <<>>,
                              userId |-> 1, category |-> "tech"] >>,
                filters |-> DefaultFilters]
    /\ filteredView = NoView

MemoNext ==
    \/ ReadFixedView
    \/ ReadFactoryView
    \/ DispatchAddTodo
    \/ DispatchAddNotification
    \/ Elapse

SpecMemo == MemoSpecInit /\ [][MemoNext]_vars

\* two calls of one query endpoint, over every pair of argument objects
KeySpecInit ==
    /\ \E endpoint \in {"getPosts", "getTodos"} :
          requests \in [1..2 -> [endpoint : {endpoint}, arg : ArgObjects(endpoint)]]
    /\ resolved = [i \in 1..2 |-> Unresolved]
    /\ TodosInit /\ SelIdle /\ ApiIdle /\ PageIdle /\ MemoIdle /\ LaterIdle

KeyNext == InitiateQuery

SpecKeys == KeySpecInit /\ [][KeyNext]_vars

\* the user slice under every interleaving of its actions and thunks
UserSpecInit == TodosInit /\ SelIdle /\ ApiIdle /\ DerivedIdle

UserNext ==
    \/ DispatchUserAction
    \/ Login
    \/ Logout
    \/ FetchUserProfile
    \/ LoginFulfilled
    \/ LoginRejected
    \/ LogoutFulfilled
    \/ FetchUserProfileFulfilled
    \/ FetchUserProfileRejected

SpecUser == UserSpecInit /\ [][UserNext]_vars

\* the store under actions of the user slice, with subscribers that may throw
StoreSpecInit == TodosInit /\ SelIdle /\ ApiIdle /\ DerivedIdle

StoreNext ==
    \/ DispatchSliceAction
    \/ DispatchRejected
    \/ DispatchLoginFulfilled

SpecStore == StoreSpecInit /\ [][StoreNext]_vars

\* the getComments cache under queries and createComment mutations
CommentSpecInit == TodosInit /\ SelIdle /\ ApiIdle /\ DerivedIdle

CommentNext ==
    \/ GetComments
    \/ GetCommentsFulfilled
    \/ GetCommentsRejected
    \/ CreateComment
    \/ CreateCommentFulfilled

SpecComments == CommentSpecInit /\ [][CommentNext]_vars

\* App: login, logout and post creation through the handlers, the
\* notifications they show, the timeouts of the auto-dismiss effect
AppSpecInit == TodosInit /\ SelIdle /\ ApiIdle /\ DerivedIdle

AppNext ==
    \/ Login
    \/ LoginThen
    \/ LoginCatch
    \/ HandleLogout
    \/ LogoutSettled
    \/ HandleCreatePost
    \/ CreatePostFulfilled
    \/ CreatePostRejected
    \/ Elapse
    \/ TimerFires
    \/ CloseNotification

SpecApp == AppSpecInit /\ [][AppNext]_vars

\* the same with time passing and every timeout that is due firing
SpecAppLive == SpecApp /\ WF_vars(Elapse) /\ WF_vars(TimerFires)

\* ------------------------------------------------------------------------
\* Properties of the api slice
\* ------------------------------------------------------------------------
KeyOf(e) == [endpoint |-> e.endpoint, arg |-> e.arg]

InFlightFor(k) == { e \in inflight : e.kind = "query" /\ KeyOf(e) = k }

\* thunk e settles in this step
SettlesNow(e) ==
    /\ e \in inflight
    /\ \A f \in inflight' : ~(f.kind = e.kind /\ f.id = e.id /\ KeyOf(f) = KeyOf(e))

\* C1: per cache key at most one request is in flight; an entry is loading
\* exactly while that request runs; during the first load the loader has been
\* invoked once however many readers subscribed; and the payload every reader
\* of a ready entry sees is the one of the request the entry tracks.
OneRequestPerCacheKey ==
    \A k \in QueryKeys :
        /\ Cardinality(InFlightFor(k)) <= 1
        /\ queries[k].status = "pending" <=> InFlightFor(k) # {}
        /\ \A e \in InFlightFor(k) : e.id = queries[k].requestId
        /\ (queries[k].status = "pending" /\ queries[k].data = 0 /\ queries[k].error = NULL)
              => nextExec[k] = 1
        /\ queries[k].status = "fulfilled" => queries[k].data = queries[k].requestId

\* two readers of the post list while its first request is loading
SharedRequestWitness ==
    \E k \in QueryKeys :
        /\ subscriptions[k] = {"r1", "r2"}
        /\ queries[k].status = "pending"
        /\ Cardinality(InFlightFor(k)) = 1
        /\ nextExec[k] = 1

PostMutationInvalidatesLists ==
    [][\A e \in inflight :
          (e.kind = "mutation" /\ SettlesNow(e) /\ lastDone'.result.error = NULL) =>
              \A k \in QueryKeys :
                  (k.endpoint = "getPosts" /\ queries[k].status = "fulfilled")
                      => queries'[k].status # "fulfilled"]_vars

\* C4: a mutation that ends in an error leaves every cache entry as it was.
FailedMutationInvalidatesNothing ==
    [][\A e \in inflight :
          (e.kind = "mutation" /\ SettlesNow(e) /\ lastDone'.result.error # NULL) =>
              queries' = queries]_vars

RetryOnlyOnFetchError ==
    /\ \A e \in inflight :
          /\ Len(e.attempts) <= 1
          /\ Len(e.attempts) = 1 => e.attempts[1].error = "FETCH_ERROR"
    /\ lastDone.kind # "none" =>
          /\ Len(lastDone.attempts) \in {1, 2}
          /\ Len(lastDone.attempts) = 2 <=> lastDone.attempts[1].error = "FETCH_ERROR"
          /\ lastDone.attempts[1].error = "404" => lastDone.result = lastDone.attempts[1]
          /\ lastDone.result = lastDone.attempts[Len(lastDone.attempts)]

\* a request whose first call failed in transport and whose retry succeeded
RetriedOnceWitness ==
    /\ Len(lastDone.attempts) = 2
    /\ lastDone.attempts[1].error = "FETCH_ERROR"
    /\ lastDone.result.error = NULL

\* ------------------------------------------------------------------------
\* Properties of the todos slice
\* ------------------------------------------------------------------------

\* C7: a fetchTodos result that arrives after the result of a later-issued
\* fetchTodos has been applied is ignored: it changes nothing of
\* state.todos (list, status, error).
StaleFetchResultIgnored ==
    [][\A r \in thunks :
          (r \in settled' /\ \E later \in settled : later > r) => todos' = todos]_vars

\* C8: state.todos.error is non-null only if state.todos.status = 'failed'.
ErrorOnlyWhenFailed == todos.error # NULL => todos.status = "failed"

\* ------------------------------------------------------------------------
\* Properties of selectFilteredPosts
\* ------------------------------------------------------------------------
Range(seq) == { seq[i] : i \in 1..Len(seq) }

SameLetterIgnoringCase(c, d) ==
    c = d \/ {c, d} = {"a", "A"} \/ {c, d} = {"b", "B"}

\* term occurs in str at some offset, letters compared ignoring case
ContainsIgnoringCase(str, term) ==
    \E offset \in 0..(Len(str) - Len(term)) :
        \A k \in 1..Len(term) : SameLetterIgnoringCase(str[offset + k], term[k])

\* C9: with a non-empty search term the records returned are exactly the
\* posts whose title or body contains the term, ignoring case.
SearchReturnsExactlyMatches ==
    (filteredView.read /\ Truthy(posts.filters.search)) =>
        Range(filteredView.value) =
            { post \in Range(posts.posts) :
                \/ ContainsIgnoringCase(post.title, posts.filters.search)
                \/ ContainsIgnoringCase(post.body, posts.filters.search) }

\* a read with the term "ab" that kept the post titled "Ab" and dropped another
SearchWitness ==
    /\ filteredView.read
    /\ posts.filters.search = <<"a", "b">>
    /\ \E post \in Range(filteredView.value) : post.title = <<"A", "b">>
    /\ Len(filteredView.value) < Len(posts.posts)

\* C10 as stated: with an empty or absent search term the output equals
\* state.posts.posts element for element, whatever sortBy and sortOrder are.
EmptySearchReturnsInputInOrder ==
    (filteredView.read /\ ~Truthy(posts.filters.search)) =>
        filteredView.value = posts.posts

\* C10 amended: with an empty or absent search term no record is removed or
\* added: the output holds exactly the records of state.posts.posts, each
\* once, arranged by the sort step (no record with a greater key before one
\* with a smaller key for 'asc', the reverse otherwise).
EmptySearchKeepsEveryRecord ==
    (filteredView.read /\ ~Truthy(posts.filters.search)) =>
        /\ filteredView.value \in Rearrangements(posts.posts)
        /\ \A i, j \in 1..Len(filteredView.value) :
              i < j =>
                IF posts.filters.sortOrder = "asc"
                THEN ~Greater(filteredView.value[i], filteredView.value[j], posts.filters.sortBy)
                ELSE ~Greater(filteredView.value[j], filteredView.value[i], posts.filters.sortBy)

\* a read with an absent term and a category selected that returned all three
\* posts in another order than the input's
EmptySearchWitness ==
    /\ filteredView.read
    /\ posts.filters.search = Undefined
    /\ posts.filters.category = "tech"
    /\ Len(posts.posts) = MaxPosts
    /\ Len(filteredView.value) = MaxPosts
    /\ filteredView.value # posts.posts

\* the two records have the same sort key: neither is greater
SameSortKey(a, b, sortBy) == ~Greater(a, b, sortBy) /\ ~Greater(b, a, sortBy)

\* position of a record in a sequence that holds it once
IndexOf(seq, x) == CHOOSE i \in 1..Len(seq) : seq[i] = x

\* C11: the sort is stable: two records with equal sort key (same lower-cased
\* title, same userId or same id) appear in the output in the same relative
\* order as in state.posts.posts, on every computation.
SortIsStable ==
    filteredView.read =>
        \A i, j \in 1..Len(posts.posts) :
            ( /\ i < j
              /\ SameSortKey(posts.posts[i], posts.posts[j], posts.filters.sortBy)
              /\ posts.posts[i] \in Range(filteredView.value)
              /\ posts.posts[j] \in Range(filteredView.value) )
            => IndexOf(filteredView.value, posts.posts[i]) < IndexOf(filteredView.value, posts.posts[j])

OtherOrder(filters) ==
    [filters EXCEPT !.sortOrder = IF filters.sortOrder = "asc" THEN "desc" ELSE "asc"]

\* C12: the comparator is sign-consistent on every pair of records the sort
\* compares, equal keys included: compare(a, b) = -compare(b, a), and
\* switching sortOrder between 'asc' and 'desc' negates the result.
ComparatorSignConsistent ==
    filteredView.read =>
        \A a, b \in Range(filteredView.value) :
            a # b =>
                /\ compare(a, b, posts.filters) = -compare(b, a, posts.filters)
                /\ compare(a, b, OtherOrder(posts.filters)) = -compare(a, b, posts.filters)

\* C13: when filters.category is not 'all' every record of the output has
\* category equal to filters.category; when it is 'all' the category step
\* removes no record.
CategoryFilterApplied ==
    filteredView.read =>
        IF posts.filters.category # "all"
        THEN \A post \in Range(filteredView.value) : post.category = posts.filters.category
        ELSE Range(filteredView.value) = Range(applySearchFilter(posts.posts, posts.filters))

\* ------------------------------------------------------------------------
\* Properties of selectPaginatedPosts
\* ------------------------------------------------------------------------

\* C14: for currentPage p >= 1 and itemsPerPage n >= 1 the output is exactly
\* the elements of the filtered sequence F at indices (p-1)*n .. min(p*n,|F|)-1
\* (counted from 0), in order; a page beyond the end is the empty sequence.
PageIsExactSlice ==
    LET F == pageInput.filtered
        p == pageInput.pagination.currentPage
        n == pageInput.pagination.itemsPerPage
        first == (p - 1) * n
        last  == Min(p * n, Len(F)) - 1
    IN  (pagedView.read /\ p >= 1 /\ n >= 1) =>
            /\ Len(pagedView.value) = Max(last - first + 1, 0)
            /\ \A k \in first..last : pagedView.value[k - first + 1] = F[k + 1]

\* 25 records, 10 per page: page 3 was read and holds the records at indices
\* 20..24
LastPageWitness ==
    /\ pagedView.read
    /\ Len(pageInput.filtered) = 25
    /\ pageInput.pagination = [currentPage |-> 3, itemsPerPage |-> 10]
    /\ Len(pagedView.value) = 5
    /\ pagedView.value[1] = pageInput.filtered[21]

\* C15: for every currentPage < 1 the selector returns the empty sequence or
\* page 1 (it has no way to reject): never a non-empty slice that differs
\* from page 1.
PageBelowOneIsEmptyOrFirst ==
    (pagedView.read /\ pageInput.pagination.currentPage < 1) =>
        \/ pagedView.value = <<>>
        \/ pagedView.value =
             SubSeq(pageInput.filtered, 1,
                    Min(pageInput.pagination.itemsPerPage, Len(pageInput.filtered)))

\* ------------------------------------------------------------------------
\* Properties of the memoized views
\* ------------------------------------------------------------------------

\* C16: two consecutive reads of a derived view with no change of its
\* dependencies in between return the reference-identical value, for the
\* module-level selectors and for selectTodosByUserId(userId)(state) and
\* selectPostsByUser(userId)(state) alike.
RereadIsSameReference ==
    [][\A view \in Views :
          ( /\ lastRead[view].seen
            /\ lastRead'[view] # lastRead[view]
            /\ lastRead'[view].inputs = lastRead[view].inputs )
          => lastRead'[view].ref = lastRead[view].ref]_vars

\* C17: a derivation's result is a function of its declared inputs only: a
\* read returns what a fresh run of the result function on the current
\* inputs returns, whenever it is read (selectActiveNotifications included).
ReadEqualsFreshComputation ==
    \A view \in Views :
        ( /\ lastRead[view].seen
          /\ lastRead[view].at = now
          /\ lastRead[view].inputs = InputsOf(view) )
        => lastRead[view].value \in ResultsOf(view, now)

\* ------------------------------------------------------------------------
\* Properties of the cache keys
\* ------------------------------------------------------------------------
BothResolved == \A i \in DOMAIN resolved : resolved[i].done

\* the properties of an argument object that carry a value
Properties(arg) == { property \in Range(arg) : property.value # "undefined" }

TodoIdsDistinct ==
    \A i, j \in 1..Len(todos.list) : i # j => todos.list[i].id # todos.list[j].id

\* the ids of the todos addTodo created: Date.now() values
LocalIds(list) == { todo.id : todo \in { t \in Range(list) : t.id >= FirstNow } }

\* C20: a todo created by addTodo leaves state.todos.list only by a
\* deleteTodo with its id: a step that drops its id is such a deletion, and
\* no other step, a fetchTodos completion included, drops it.
LocalTodoLeavesOnlyByDelete ==
    [][\A id \in LocalIds(todos.list) :
          id \notin LocalIds(todos'.list)
          => todos' = deleteTodo(todos, Action("todos/deleteTodo", id))]_vars

\* ------------------------------------------------------------------------
\* Properties of the user slice
\* ------------------------------------------------------------------------
MockUsernames == { mockUsers[i].username : i \in 1..Len(mockUsers) }

\* the login thunk that settles in this step
LoginSettles ==
    lastSettled' # lastSettled /\ lastSettled'.type = "loginUser"

\* C22: loginUser is fulfilled if and only if the username is a mock
\* username and the password is 'password'; on fulfilment isAuthenticated is
\* true, userData is the matching mock user, token is non-null, error is null
\* and loginAttempts is 0; otherwise it is rejected with 'Invalid credentials'
\* and loginAttempts grows by exactly 1.
LoginOutcomeFollowsCredentials ==
    [][LoginSettles =>
          LET credentials == lastSettled'.arg[1]
          IN  IF credentials.username \in MockUsernames /\ credentials.password = "password"
              THEN /\ lastSettled'.outcome = "fulfilled"
                   /\ user'.isAuthenticated
                   /\ \E i \in 1..Len(mockUsers) :
                         /\ mockUsers[i].username = credentials.username
                         /\ user'.userData = <<mockUsers[i]>>
                   /\ user'.token # <<>>
                   /\ user'.error = NullText
                   /\ user'.loginAttempts = 0
              ELSE /\ lastSettled'.outcome = "rejected"
                   /\ lastSettled'.payload = InvalidCredentials
                   /\ user'.error = InvalidCredentials
                   /\ user'.loginAttempts = user.loginAttempts + 1]_vars

\* the third thunk dispatched was a login as jane_smith and it was fulfilled
LoginWitness ==
    /\ lastSettled.type = "loginUser"
    /\ lastSettled.outcome = "fulfilled"
    /\ lastSettled.id = 3
    /\ user.isAuthenticated
    /\ user.userData = <<mockUsers[2]>>
    /\ user.loginAttempts = 0

\* C30: a rejected loginUser handled while isAuthenticated is true leaves
\* userData, token and isAuthenticated as they are: only isLoading, error
\* and loginAttempts change.
RejectedLoginKeepsSession ==
    [][(LoginSettles /\ lastSettled'.outcome = "rejected" /\ user.isAuthenticated) =>
          /\ user'.userData = user.userData
          /\ user'.token = user.token
          /\ user'.isAuthenticated = user.isAuthenticated
          /\ user'.lastLoginTime = user.lastLoginTime]_vars

\* C26: the session fields agree in every reachable state: isAuthenticated
\* is true if and only if token is non-null, and if and only if userData is
\* non-null.
SessionFieldsAgree ==
    /\ user.isAuthenticated <=> user.token # <<>>
    /\ user.isAuthenticated <=> user.userData # <<>>

\* C27: selectUserPermissions reports canDeletePosts, canManageUsers or
\* canViewAdminPanel as true only if isAuthenticated is true and the session
\* was established by a login as a mock user whose role is 'admin'.
AdminOnlyByAdminLogin ==
    LET permissions == selectUserPermissions(user)
    IN  ( \/ permissions.canDeletePosts
          \/ permissions.canManageUsers
          \/ permissions.canViewAdminPanel )
        => (user.isAuthenticated /\ loginRole = "admin")

\* ------------------------------------------------------------------------
\* Properties of the store
\* ------------------------------------------------------------------------
ContainsToken(text) ==
    \E offset \in 0..(Len(text) - 5) :
        SubSeq(text, offset + 1, offset + 5) = <<"t", "o", "k", "e", "n">>

\* C24: on fetchUserProfile.rejected the session is cleared if and only if
\* the payload contains 'token', otherwise the three session fields are
\* unchanged; isLoading becomes false and error becomes the payload; the
\* reducer never raises, also when the rejection carries no payload.
ProfileRejectionHandled ==
    [][lastDispatch'.type = "user/fetchUserProfile/rejected" =>
          /\ ~lastDispatch'.reducerThrew
          /\ user'.isLoading = FALSE
          /\ user'.error = lastDispatch'.payload
          /\ IF ContainsToken(lastDispatch'.payload)
             THEN ~user'.isAuthenticated /\ user'.userData = <<>> /\ user'.token = <<>>
             ELSE /\ user'.isAuthenticated = user.isAuthenticated
                  /\ user'.userData = user.userData
                  /\ user'.token = user.token]_vars

\* C28: every action that passes through errorMiddleware is handed to the
\* rest of the chain exactly once, whether or not an exception is raised,
\* and is never applied to the state a second time.
HandedOnExactlyOnce ==
    lastDispatch.type # "" => (lastDispatch.handed = 1 /\ lastDispatch.applied <= 1)

\* ------------------------------------------------------------------------
\* Properties of the comment endpoints
\* ------------------------------------------------------------------------
\* C29: a successful createComment for post P invalidates exactly the
\* getComments(P) entry, and no getComments(Q) entry for another post Q,
\* whatever comment ids the cached results contain.
CreateCommentInvalidatesOwnPostOnly ==
    lastInvalidated.postId # 0 =>
        /\ lastInvalidated.keys \subseteq {lastInvalidated.postId}
        /\ \A key \in lastInvalidated.keys : comments[key].tags # {}

HasMessage(message) ==
    \E i \in 1..Len(ui.notifications) : ui.notifications[i].message = message

\* C21: 'Post created successfully!' is added only after createPost has
\* succeeded and 'Logged out successfully' only after logout has succeeded;
\* when the operation fails no success notification for it is shown.
SuccessShownAfterSuccess ==
    /\ HasMessage(LoggedOut) => "logoutUser" \in succeeded
    /\ HasMessage(PostCreated) => "createPost" \in succeeded

NotificationIds == { FirstNow + k * ElapseStep : k \in 0..MaxElapses }

Present(id) ==
    \E i \in 1..Len(ui.notifications) : ui.notifications[i].id = id

\* the duration of the notification ends while the clock of the model runs
DurationElapses(id) ==
    \E i \in 1..Len(ui.notifications) :
        /\ ui.notifications[i].id = id
        /\ getTime(ui.notifications[i].timestamp) + ui.notifications[i].duration
              <= FirstNow + MaxElapses * ElapseStep

\* C23: every notification added to state.ui.notifications is eventually
\* removed from it after its duration has elapsed, without user action.
NotificationsAutoDismiss ==
    \A id \in NotificationIds : (Present(id) /\ DurationElapses(id)) ~> ~Present(id)

====
